---- MODULE Spec2Model ----
(***************************************************************************)
(* A model of src/theia/sfm/pose/upnp.cc: the UPnP pose solver's stages    *)
(* (direction aggregation, helper matrices G and J, cost matrices A, b and *)
(* gamma) and the entry point Upnp that chains them.                       *)
(*                                                                         *)
(* A double is modelled as an exact fraction <<n, d>> in lowest terms with *)
(* d > 0, extended by the three non-finite IEEE-754 values: <<1, 0>> is    *)
(* +inf, <<-1, 0>> is -inf and <<0, 0>> is NaN.  Rounding is not modelled; *)
(* division by zero and the propagation of inf and NaN are.                *)
(***************************************************************************)
EXTENDS Integers, Sequences, FiniteSets, TLC

VARIABLES
    ray_origins,            \* per call: the ray_origins argument
    ray_directions,         \* per call: the ray_directions argument
    world_points,           \* per call: the world_points argument
    solution_rotations,     \* per call: the pointee of solution_rotations
    solution_translations,  \* per call: the pointee of solution_translations
    outer_products,         \* per call: local of Upnp
    h_inverse,              \* per call: local of stage 1, before inversion
    h_matrix,               \* per call: local of Upnp
    g_matrix,               \* per call: local of Upnp
    j_matrix,               \* per call: local of Upnp
    a_matrix,               \* per call: local of Upnp
    b_mat,                  \* per call: local of Upnp
    gamma,                  \* per call: local of Upnp
    pc,                     \* per call: position in Upnp
    oob,                    \* per call: an element was read past a vector's end
    given,                  \* per call: the arguments as passed (never changes)
    hm,                     \* stage 1 applied on its own
    lm,                     \* LeftMultiply applied on its own
    cc                      \* ComputeCostMatrices applied on its own

vars == <<ray_origins, ray_directions, world_points, solution_rotations,
          solution_translations, outer_products, h_inverse, h_matrix,
          g_matrix, j_matrix, a_matrix, b_mat, gamma, pc, oob, given, hm, lm, cc>>

\* Longest input vector of a single call.
MaxLen == 2

\* Upnp may run in two threads at once (one per RANSAC hypothesis).
Calls == {1, 2}

-----------------------------------------------------------------------------
(* double *)

Abs(n) == IF n < 0 THEN -n ELSE n

Sgn(n) == IF n > 0 THEN 1 ELSE IF n < 0 THEN -1 ELSE 0

RECURSIVE Gcd(_, _)
Gcd(a, b) == IF b = 0 THEN a ELSE Gcd(b, a % b)

Norm(n, d) ==
    IF d = 0 THEN <<Sgn(n), 0>>
    ELSE LET g == Gcd(Abs(n), Abs(d))
         IN  <<(Sgn(d) * n) \div g, Abs(d) \div g>>

D(n) == <<n, 1>>
Frac(n, d) == Norm(n, d)
Zero == <<0, 1>>
One == <<1, 1>>
Two == <<2, 1>>
PosInf == <<1, 0>>
NegInf == <<-1, 0>>
NaN == <<0, 0>>

IsNaN(x) == x = NaN
IsFinite(x) == x[2] # 0

\* x + y: inf + inf = inf, inf + (-inf) = NaN, NaN + x = NaN.
Add(x, y) ==
    IF x[2] = 1 /\ y[2] = 1 THEN <<x[1] + y[1], 1>>
    ELSE IF x[2] = 0 /\ y[2] = 0
    THEN IF x[1] = y[1] THEN x ELSE NaN
    ELSE IF x[2] = 0 \/ y[2] = 0
    THEN Norm(x[1] * y[2] + y[1] * x[2], 0)
    ELSE LET g == Gcd(x[2], y[2])
         IN  Norm(x[1] * (y[2] \div g) + y[1] * (x[2] \div g),
                  (x[2] \div g) * y[2])

Neg(x) == <<-x[1], x[2]>>

Sub(x, y) == Add(x, Neg(y))

\* x * y: inf * 0 = NaN, NaN * x = NaN.
Mul(x, y) ==
    IF x[2] = 1 /\ y[2] = 1 THEN <<x[1] * y[1], 1>>
    ELSE IF x[2] = 0 \/ y[2] = 0
    THEN Norm(Sgn(x[1]) * Sgn(y[1]), 0)
    ELSE LET g1 == Gcd(Abs(x[1]), y[2])
             g2 == Gcd(Abs(y[1]), x[2])
         IN  <<(x[1] \div g1) * (y[1] \div g2), (x[2] \div g2) * (y[2] \div g1)>>

\* 1 / x: 1 / 0 = inf.
Recip(x) == Norm(x[2], x[1])

\* x == y and x >= 0 as the hardware compares: false when NaN is involved.
Eq(x, y) == ~IsNaN(x) /\ ~IsNaN(y) /\ x = y
GeZero(x) == ~IsNaN(x) /\ x[1] >= 0

-----------------------------------------------------------------------------
(* Eigen fixed-size vectors and matrices: a matrix is a tuple of rows *)

Tab3(E(_)) == <<E(1), E(2), E(3)>>
Tab10(E(_)) == <<E(1), E(2), E(3), E(4), E(5), E(6), E(7), E(8), E(9), E(10)>>
Tab(n, E(_)) == IF n = 3 THEN Tab3(E) ELSE Tab10(E)

Vector3d(x, y, z) == <<D(x), D(y), D(z)>>

Dot3(u, v) == Add(Add(Mul(u[1], v[1]), Mul(u[2], v[2])), Mul(u[3], v[3]))

Col(m, j) == <<m[1][j], m[2][j], m[3][j]>>

VecMap(Op(_, _), u, v) == LET E(i) == Op(u[i], v[i]) IN Tab(Len(u), E)
MatMap(Op(_, _), a, b) == LET E(i) == VecMap(Op, a[i], b[i]) IN Tab(Len(a), E)

VecAdd(u, v) == VecMap(Add, u, v)
MatAdd(a, b) == MatMap(Add, a, b)
MatSub(a, b) == MatMap(Sub, a, b)
MatNeg(a) == LET E(i) == LET F(j) == Neg(a[i][j]) IN Tab(Len(a[i]), F)
             IN  Tab(Len(a), E)

\* a * b for a of size r x 3 and b of size 3 x c.
MatMul(a, b) ==
    LET E(i) == LET F(j) == Dot3(a[i], Col(b, j)) IN Tab(Len(b[1]), F)
    IN  Tab(Len(a), E)

\* a * v for a of size r x 3 and v of size 3.
MatVec(a, v) == LET E(i) == Dot3(a[i], v) IN Tab(Len(a), E)

\* The transpose of a 3 x 10 matrix.
Transpose(a) == LET E(i) == Col(a, i) IN Tab10(E)

SquaredNorm(v) == Dot3(v, v)

Zero3 == <<Zero, Zero, Zero>>
Zero10 == LET E(i) == Zero IN Tab10(E)
Zero3x3 == <<Zero3, Zero3, Zero3>>
Zero3x10 == <<Zero10, Zero10, Zero10>>
Zero10x10 == LET E(i) == Zero10 IN Tab10(E)

Identity == <<<<One, Zero, Zero>>, <<Zero, One, Zero>>, <<Zero, Zero, One>>>>

\* n * Matrix3d::Identity()
ScaledIdentity(n) ==
    LET E(i) == LET F(j) == IF i = j THEN D(n) ELSE Zero IN Tab3(F) IN Tab3(E)

\* ray * ray.transpose()
OuterProduct(ray) ==
    LET E(i) == LET F(j) == Mul(ray[i], ray[j]) IN Tab3(F) IN Tab3(E)

\* Eigen's cofactor_3x3<i, j> (0-based i, j in the source, 1-based here).
Cofactor(m, i, j) ==
    LET i1 == (i % 3) + 1
        i2 == ((i + 1) % 3) + 1
        j1 == (j % 3) + 1
        j2 == ((j + 1) % 3) + 1
    IN  Sub(Mul(m[i1][j1], m[i2][j2]), Mul(m[i1][j2], m[i2][j1]))

\* The determinant as Matrix3d::inverse() computes it: cofactors of column 0
\* times column 0.
Determinant(m) ==
    Dot3(<<Cofactor(m, 1, 1), Cofactor(m, 2, 1), Cofactor(m, 3, 1)>>, Col(m, 1))

\* Matrix3d::inverse(): every cofactor times 1 / det, with no test of det.  Of
\* a singular matrix it returns inf and NaN entries.
Inverse(m) ==
    LET invdet == Recip(Determinant(m))
        E(i) == LET F(j) == Mul(Cofactor(m, j, i), invdet) IN Tab3(F)
    IN  Tab3(E)

-----------------------------------------------------------------------------
(* the stages *)

\* ComputeHMatrixAndRayDirectionsOuterProducts, the loop from ray i on.
RECURSIVE HLoop(_, _, _)
HLoop(rays, i, acc) ==
    IF i > Len(rays) THEN acc
    ELSE LET op == OuterProduct(rays[i])
         IN  HLoop(rays, i + 1,
                   [outer_products |-> Append(acc.outer_products, op),
                    h_inverse |-> MatSub(acc.h_inverse, op)])

\* As ComputeHMatrixAndRayDirectionsOuterProducts, but the identity is added
\* once instead of ray_directions.size() times.
HMatrixIdentityAddedOnce(rays) ==
    LET acc == HLoop(rays, 1, [outer_products |-> <<>>, h_inverse |-> Zero3x3])
        h_inv == MatAdd(acc.h_inverse, Identity)
    IN  [outer_products |-> acc.outer_products,
         h_inverse |-> h_inv,
         h_matrix |-> Inverse(h_inv)]

\* ComputeHMatrixAndRayDirectionsOuterProducts: the outer products, the
\* accumulated matrix and its inverse (the returned H).
ComputeHMatrixAndRayDirectionsOuterProducts(rays) ==
    LET acc == HLoop(rays, 1, [outer_products |-> <<>>, h_inverse |-> Zero3x3])
        h_inv == MatAdd(acc.h_inverse, ScaledIdentity(Len(rays)))
    IN  [outer_products |-> acc.outer_products,
         h_inverse |-> h_inv,
         h_matrix |-> Inverse(h_inv)]

\* As LeftMultiply, but with the sign of phi_mat(0, 6) flipped.
LeftMultiplySignSlip(point) ==
    LET x == point[1]
        y == point[2]
        z == point[3]
    IN  << <<x, x, Neg(x), Neg(x), Zero, Mul(Two, z), Mul(Two, y),
             Mul(Two, y), Mul(Two, z), Zero>>,
           <<y, Neg(y), y, Neg(y), Mul(D(-2), z), Zero, Mul(Two, x),
             Mul(Two, x), Zero, Mul(Two, z)>>,
           <<z, Neg(z), Neg(z), z, Mul(Two, y), Mul(D(-2), x), Zero,
             Zero, Mul(Two, x), Mul(Two, y)>> >>

LeftMultiply(point) ==
    LET x == point[1]
        y == point[2]
        z == point[3]
    IN  << <<x, x, Neg(x), Neg(x), Zero, Mul(Two, z), Mul(D(-2), y),
             Mul(Two, y), Mul(Two, z), Zero>>,
           <<y, Neg(y), y, Neg(y), Mul(D(-2), z), Zero, Mul(Two, x),
             Mul(Two, x), Zero, Mul(Two, z)>>,
           <<z, Neg(z), Neg(z), z, Mul(Two, y), Mul(D(-2), x), Zero,
             Zero, Mul(Two, x), Mul(Two, y)>> >>

\* ComputeHelperMatrices, the loop from correspondence i on.  n is
\* ray_origins.size(); wp, ro and op are what the reads of world_points[i],
\* ray_origins[i] and outer_products[i] return.
RECURSIVE HelperLoop(_, _, _, _, _, _, _)
HelperLoop(wp, ro, op, h, n, i, acc) ==
    IF i > n THEN acc
    ELSE LET v_matrix == MatMul(h, MatSub(op[i], Identity))
             left_multiply_mat == LeftMultiply(wp[i])
         IN  HelperLoop(wp, ro, op, h, n, i + 1,
                        [j_matrix |-> VecAdd(acc.j_matrix, MatVec(v_matrix, ro[i])),
                         g_matrix |-> MatAdd(acc.g_matrix,
                                             MatMul(v_matrix, left_multiply_mat))])

\* ComputeHelperMatrices past its CHECK_EQ: G and J are zeroed, then summed.
ComputeHelperMatrices(wp, ro, op, h, n) ==
    HelperLoop(wp, ro, op, h, n, 1, [g_matrix |-> Zero3x10, j_matrix |-> Zero3])

\* ComputeCostMatrices, the loop from correspondence i on.  n is
\* world_points.size().
RECURSIVE CostLoop(_, _, _, _, _, _, _, _)
CostLoop(wp, ro, op, g, j, n, i, acc) ==
    IF i > n THEN acc
    ELSE LET left_multiply_mat == LeftMultiply(wp[i])
             outer_prod_minus_identity == MatSub(op[i], Identity)
             temp_a_mat == MatMul(outer_prod_minus_identity,
                                  MatAdd(left_multiply_mat, g))
             temp_a_t == Transpose(temp_a_mat)
             temp_b_mat == MatVec(MatNeg(outer_prod_minus_identity),
                                  VecAdd(ro[i], j))
         IN  CostLoop(wp, ro, op, g, j, n, i + 1,
                      [a_matrix |-> MatAdd(acc.a_matrix, MatMul(temp_a_t, temp_a_mat)),
                       b_vector |-> VecAdd(acc.b_vector, MatVec(temp_a_t, temp_b_mat)),
                       gamma |-> Add(acc.gamma, SquaredNorm(temp_b_mat))])

\* setZero() on a 10 x 10 matrix and on a 10-vector: the prior contents go.
KeepContents10x10(m) == m
SetZero10x10(m) == Zero10x10
SetZero10(v) == Zero10

\* ComputeCostMatrices: a_prior and b_prior are what *a_matrix and *b_vector
\* hold on entry.
ComputeCostMatrices(wp, ro, op, g, j, n, a_prior, b_prior) ==
    CostLoop(wp, ro, op, g, j, n, 1,
             [a_matrix |-> SetZero10x10(a_prior),
              b_vector |-> SetZero10(b_prior),
              gamma |-> Zero])

-----------------------------------------------------------------------------
(* the arguments a call is given *)

\* A pointer argument: null, or the vector it points to.
Ptr(v) == [null |-> FALSE, v |-> v]
NullPtr == [null |-> TRUE, v |-> <<>>]

NaN3 == <<NaN, NaN, NaN>>
NaN10 == LET E(i) == NaN IN Tab10(E)
NaN3x3 == <<NaN3, NaN3, NaN3>>
NaN3x10 == <<NaN10, NaN10, NaN10>>
NaN10x10 == LET E(i) == NaN10 IN Tab10(E)

SeqsUpTo(S, n) == UNION {[1..k -> S] : k \in 0..n}

Origins == {Vector3d(0, 0, 0), Vector3d(1, 0, 0)}
Directions == {Vector3d(1, 0, 0), Vector3d(0, 1, 0)}
WorldPoints == {Vector3d(1, 2, 3), Vector3d(0, 1, -1)}

\* Quaternions are <<w, x, y, z>>.
StaleRotation == <<One, Zero, Zero, Zero>>
StaleTranslation == Vector3d(9, 9, 9)

\* What the two output vectors hold when Upnp is called.
PriorOutputs ==
    {[rot |-> Ptr(<<StaleRotation>>),
      trans |-> Ptr(<<StaleTranslation, StaleTranslation>>)],
     [rot |-> NullPtr, trans |-> Ptr(<<StaleTranslation>>)],
     [rot |-> Ptr(<<StaleRotation>>), trans |-> NullPtr]}

NoPose == [known |-> FALSE, q |-> StaleRotation, t |-> Zero3]

Args(ro, rd, wp, out, pose) ==
    [called |-> TRUE, ray_origins |-> ro, ray_directions |-> rd,
     world_points |-> wp, rot |-> out.rot, trans |-> out.trans, pose |-> pose]

NotCalled ==
    [called |-> FALSE, ray_origins |-> <<>>, ray_directions |-> <<>>,
     world_points |-> <<>>, rot |-> Ptr(<<>>), trans |-> Ptr(<<>>),
     pose |-> NoPose]

\* Any three vectors of at most MaxLen elements, of equal length or not.
SmallArgs ==
    {Args(ro, rd, wp, out, NoPose) :
        ro \in SeqsUpTo(Origins, MaxLen),
        rd \in SeqsUpTo(Directions, MaxLen),
        wp \in SeqsUpTo(WorldPoints, MaxLen),
        out \in PriorOutputs}

\* The rotation matrix of the quaternion q = <<q0, q1, q2, q3>>, not normalised.
QuatToRotation(q) ==
    LET q0 == q[1]
        q1 == q[2]
        q2 == q[3]
        q3 == q[4]
        S(a, b) == Mul(a, b)
        T(a, b) == Mul(Two, Mul(a, b))
    IN  << <<Sub(Add(S(q0, q0), S(q1, q1)), Add(S(q2, q2), S(q3, q3))),
             Sub(T(q1, q2), T(q0, q3)),
             Add(T(q1, q3), T(q0, q2))>>,
           <<Add(T(q1, q2), T(q0, q3)),
             Sub(Add(S(q0, q0), S(q2, q2)), Add(S(q1, q1), S(q3, q3))),
             Sub(T(q2, q3), T(q0, q1))>>,
           <<Sub(T(q1, q3), T(q0, q2)),
             Add(T(q2, q3), T(q0, q1)),
             Sub(Add(S(q0, q0), S(q3, q3)), Add(S(q1, q1), S(q2, q2)))>> >>

Transpose3(m) == <<Col(m, 1), Col(m, 2), Col(m, 3)>>
Scale3(k, v) == <<Mul(k, v[1]), Mul(k, v[2]), Mul(k, v[3])>>
VecSub(u, v) == VecMap(Sub, u, v)

\* Six rays in general position, in the camera rig's frame, each with the
\* depth of the point it sees.
SceneRays ==
    << [origin |-> Vector3d(0, 0, 0), direction |-> Vector3d(1, 0, 0), depth |-> D(2)],
       [origin |-> Vector3d(0, 0, 0), direction |-> Vector3d(0, 1, 0), depth |-> D(3)],
       [origin |-> Vector3d(1, 0, 0), direction |-> Vector3d(0, 0, 1), depth |-> D(1)],
       [origin |-> Vector3d(0, 1, 0), direction |-> Vector3d(1, 0, 0), depth |-> D(3)],
       [origin |-> Vector3d(1, 1, 0), direction |-> Vector3d(0, 0, 1), depth |-> D(2)],
       [origin |-> Vector3d(1, 0, 1), direction |-> Vector3d(0, 1, 0), depth |-> D(2)] >>

ScenePoses ==
    {[known |-> TRUE, q |-> q, t |-> t] :
        q \in {<<One, Zero, Zero, Zero>>, <<Zero, One, Zero, Zero>>,
               <<Zero, Zero, One, Zero>>, <<Zero, Zero, Zero, One>>},
        t \in {Vector3d(0, 0, 0), Vector3d(1, -2, 0), Vector3d(0, 1, 3)}}

\* The noiseless scene of a known pose: the world point p of ray i satisfies
\* origin + depth * direction = R * p + t.
SceneArgs ==
    {Args([i \in DOMAIN SceneRays |-> SceneRays[i].origin],
          [i \in DOMAIN SceneRays |-> SceneRays[i].direction],
          [i \in DOMAIN SceneRays |->
              MatVec(Transpose3(QuatToRotation(pose.q)),
                     VecSub(VecAdd(SceneRays[i].origin,
                                   Scale3(SceneRays[i].depth, SceneRays[i].direction)),
                            pose.t))],
          [rot |-> Ptr(<<StaleRotation>>), trans |-> Ptr(<<StaleTranslation>>)],
          pose) : pose \in ScenePoses}

-----------------------------------------------------------------------------
(* Upnp, step by step *)

\* A failed CHECK and a fault end the process, and every call in it.
ProcessAlive == \A c \in Calls : pc[c] \notin {"abort_null", "abort_check", "crashed"}

\* Call c is at `label` and the process runs.
At(c, label) == ProcessAlive /\ pc[c] = label

\* No function is being applied on its own.
NoneAlone ==
    /\ hm = [pc |-> "idle"]
    /\ lm = [pc |-> "idle"]
    /\ cc = [pc |-> "idle"]

\* A local declared without an initialiser: it holds no defined value, and no
\* stage reads it before writing it.
Uninitialized == <<>>

\* The state when the calls of `args` are about to start.
Setup(args) ==
    /\ given = args
    /\ ray_origins = [c \in Calls |-> args[c].ray_origins]
    /\ ray_directions = [c \in Calls |-> args[c].ray_directions]
    /\ world_points = [c \in Calls |-> args[c].world_points]
    /\ solution_rotations = [c \in Calls |-> args[c].rot]
    /\ solution_translations = [c \in Calls |-> args[c].trans]
    /\ outer_products = [c \in Calls |-> <<>>]
    /\ h_inverse = [c \in Calls |-> Uninitialized]
    /\ h_matrix = [c \in Calls |-> Uninitialized]
    /\ g_matrix = [c \in Calls |-> Uninitialized]
    /\ j_matrix = [c \in Calls |-> Uninitialized]
    /\ a_matrix = [c \in Calls |-> Uninitialized]
    /\ b_mat = [c \in Calls |-> Uninitialized]
    /\ gamma = [c \in Calls |-> Uninitialized]
    /\ pc = [c \in Calls |-> IF args[c].called THEN "start" ELSE "idle"]
    /\ oob = [c \in Calls |-> FALSE]

Init ==
    /\ \E a \in SmallArgs \cup SceneArgs :
          Setup([c \in Calls |-> IF c = 1 THEN a ELSE NotCalled])
    /\ NoneAlone

inputs == <<ray_origins, ray_directions, world_points>>
outputs == <<solution_rotations, solution_translations>>
stage1 == <<outer_products, h_inverse, h_matrix>>
stage2 == <<g_matrix, j_matrix>>
stage3 == <<a_matrix, b_mat, gamma>>
alone == <<hm, lm, cc>>

\* As ClearOutputs, but solution_translations is checked and not cleared.
ClearRotationsOnly(c) ==
    /\ At(c, "start")
    /\ IF solution_rotations[c].null
       THEN /\ pc' = [pc EXCEPT ![c] = "abort_null"]
            /\ UNCHANGED outputs
       ELSE /\ solution_rotations' = [solution_rotations EXCEPT ![c] = Ptr(<<>>)]
            /\ UNCHANGED solution_translations
            /\ pc' = [pc EXCEPT ![c] =
                         IF solution_translations[c].null THEN "abort_null"
                         ELSE "cleared"]
    /\ UNCHANGED <<inputs, stage1, stage2, stage3, oob, given, alone>>

\* CHECK_NOTNULL(solution_rotations)->clear();
\* CHECK_NOTNULL(solution_translations)->clear();
ClearOutputs(c) ==
    /\ At(c, "start")
    /\ IF solution_rotations[c].null
       THEN /\ pc' = [pc EXCEPT ![c] = "abort_null"]
            /\ UNCHANGED outputs
       ELSE /\ solution_rotations' = [solution_rotations EXCEPT ![c] = Ptr(<<>>)]
            /\ IF solution_translations[c].null
               THEN /\ pc' = [pc EXCEPT ![c] = "abort_null"]
                    /\ UNCHANGED solution_translations
               ELSE /\ solution_translations' =
                          [solution_translations EXCEPT ![c] = Ptr(<<>>)]
                    /\ pc' = [pc EXCEPT ![c] = "cleared"]
    /\ UNCHANGED <<inputs, stage1, stage2, stage3, oob, given, alone>>

\* As DirectionStage, but a singular accumulated matrix fails a CHECK.
DirectionStageChecked(c) ==
    /\ At(c, "cleared")
    /\ LET r == ComputeHMatrixAndRayDirectionsOuterProducts(ray_directions[c])
       IN  /\ outer_products' = [outer_products EXCEPT ![c] = r.outer_products]
           /\ h_inverse' = [h_inverse EXCEPT ![c] = r.h_inverse]
           /\ h_matrix' = [h_matrix EXCEPT ![c] = r.h_matrix]
           /\ pc' = [pc EXCEPT ![c] =
                        IF Determinant(r.h_inverse) = Zero THEN "abort_check"
                        ELSE "h_done"]
    /\ UNCHANGED <<inputs, outputs, stage2, stage3, oob, given, alone>>

\* As DirectionStage, but outer_products is a static vector: one for all calls.
DirectionStageStatic(c) ==
    /\ At(c, "cleared")
    /\ LET r == ComputeHMatrixAndRayDirectionsOuterProducts(ray_directions[c])
       IN  /\ outer_products' = [k \in Calls |-> r.outer_products]
           /\ h_inverse' = [h_inverse EXCEPT ![c] = r.h_inverse]
           /\ h_matrix' = [h_matrix EXCEPT ![c] = r.h_matrix]
    /\ pc' = [pc EXCEPT ![c] = "h_done"]
    /\ UNCHANGED <<inputs, outputs, stage2, stage3, oob, given, alone>>

\* 1. Compute the H matrix and the outer products of the ray directions.
DirectionStage(c) ==
    /\ At(c, "cleared")
    /\ LET r == ComputeHMatrixAndRayDirectionsOuterProducts(ray_directions[c])
       IN  /\ outer_products' = [outer_products EXCEPT ![c] = r.outer_products]
           /\ h_inverse' = [h_inverse EXCEPT ![c] = r.h_inverse]
           /\ h_matrix' = [h_matrix EXCEPT ![c] = r.h_matrix]
    /\ pc' = [pc EXCEPT ![c] = "h_done"]
    /\ UNCHANGED <<inputs, outputs, stage2, stage3, oob, given, alone>>

\* What reads of v[0], ..., v[n-1] return: v's elements, and past its end
\* whatever `fill` puts there.
ReadPast(v, n, fill) == [i \in 1..n |-> IF i <= Len(v) THEN v[i] ELSE fill[i]]

\* What a read past the end of a vector may return.
GarbagePoints == {Zero3, NaN3}
GarbageMatrices == {Zero3x3, NaN3x3}

\* 2. CHECK_EQ(ray_origins.size(), outer_products.size()) fails.
CheckFails(c) ==
    /\ At(c, "h_done")
    /\ Len(ray_origins[c]) # Len(outer_products[c])

HelperCheckFails(c) ==
    /\ CheckFails(c)
    /\ pc' = [pc EXCEPT ![c] = "abort_check"]
    /\ UNCHANGED <<inputs, outputs, stage1, stage2, stage3, oob, given, alone>>

\* 2. Compute matrices J and G; every world_points[i] read exists.
HelperInRange(c) ==
    /\ At(c, "h_done")
    /\ Len(ray_origins[c]) = Len(outer_products[c])
    /\ Len(world_points[c]) >= Len(ray_origins[c])

HelperStage(c) ==
    /\ HelperInRange(c)
    /\ LET r == ComputeHelperMatrices(world_points[c], ray_origins[c],
                                      outer_products[c], h_matrix[c],
                                      Len(ray_origins[c]))
       IN  /\ g_matrix' = [g_matrix EXCEPT ![c] = r.g_matrix]
           /\ j_matrix' = [j_matrix EXCEPT ![c] = r.j_matrix]
    /\ pc' = [pc EXCEPT ![c] = "helper_done"]
    /\ UNCHANGED <<inputs, outputs, stage1, stage3, oob, given, alone>>

\* 2. world_points is shorter than ray_origins: world_points[i] is read past
\* the end, which is undefined; the read returns whatever lies there.
HelperPastEnd(c) ==
    /\ At(c, "h_done")
    /\ Len(ray_origins[c]) = Len(outer_products[c])
    /\ Len(world_points[c]) < Len(ray_origins[c])

HelperReadsPastEnd(c) ==
    /\ HelperPastEnd(c)
    /\ \E fill \in [(Len(world_points[c]) + 1)..Len(ray_origins[c]) -> GarbagePoints] :
          LET r == ComputeHelperMatrices(
                       ReadPast(world_points[c], Len(ray_origins[c]), fill),
                       ray_origins[c], outer_products[c], h_matrix[c],
                       Len(ray_origins[c]))
          IN  /\ g_matrix' = [g_matrix EXCEPT ![c] = r.g_matrix]
              /\ j_matrix' = [j_matrix EXCEPT ![c] = r.j_matrix]
    /\ oob' = [oob EXCEPT ![c] = TRUE]
    /\ pc' = [pc EXCEPT ![c] = "helper_done"]
    /\ UNCHANGED <<inputs, outputs, stage1, stage3, given, alone>>

\* 2. The same read faults instead.
HelperCrashes(c) ==
    /\ HelperPastEnd(c)
    /\ oob' = [oob EXCEPT ![c] = TRUE]
    /\ pc' = [pc EXCEPT ![c] = "crashed"]
    /\ UNCHANGED <<inputs, outputs, stage1, stage2, stage3, given, alone>>

\* 3. Compute the blocks of matrix M; every element read exists.  Stages 4
\* and 5 are not in the source: Upnp returns with the outputs as cleared.
CostInRange(c) ==
    /\ At(c, "helper_done")
    /\ Len(world_points[c]) <= Len(ray_origins[c])

CostStage(c) ==
    /\ CostInRange(c)
    /\ LET r == ComputeCostMatrices(
                    ReadPast(world_points[c], Len(world_points[c]), <<>>),
                    ray_origins[c], outer_products[c],
                    g_matrix[c], j_matrix[c], Len(world_points[c]),
                    a_matrix[c], b_mat[c])
       IN  /\ a_matrix' = [a_matrix EXCEPT ![c] = r.a_matrix]
           /\ b_mat' = [b_mat EXCEPT ![c] = r.b_vector]
           /\ gamma' = [gamma EXCEPT ![c] = r.gamma]
    /\ pc' = [pc EXCEPT ![c] = "done"]
    /\ UNCHANGED <<inputs, outputs, stage1, stage2, oob, given, alone>>

\* 3. world_points is longer than ray_origins: outer_products[i] and
\* ray_origins[i] are read past the end.
CostPastEnd(c) ==
    /\ At(c, "helper_done")
    /\ Len(world_points[c]) > Len(ray_origins[c])

CostReadsPastEnd(c) ==
    /\ CostPastEnd(c)
    /\ LET past == (Len(ray_origins[c]) + 1)..Len(world_points[c])
       IN  \E fill_ro \in [past -> GarbagePoints], fill_op \in [past -> GarbageMatrices] :
              LET r == ComputeCostMatrices(
                           world_points[c],
                           ReadPast(ray_origins[c], Len(world_points[c]), fill_ro),
                           ReadPast(outer_products[c], Len(world_points[c]), fill_op),
                           g_matrix[c], j_matrix[c], Len(world_points[c]),
                           a_matrix[c], b_mat[c])
              IN  /\ a_matrix' = [a_matrix EXCEPT ![c] = r.a_matrix]
                  /\ b_mat' = [b_mat EXCEPT ![c] = r.b_vector]
                  /\ gamma' = [gamma EXCEPT ![c] = r.gamma]
    /\ oob' = [oob EXCEPT ![c] = TRUE]
    /\ pc' = [pc EXCEPT ![c] = "done"]
    /\ UNCHANGED <<inputs, outputs, stage1, stage2, given, alone>>

\* 3. The same read faults instead.
CostCrashes(c) ==
    /\ CostPastEnd(c)
    /\ oob' = [oob EXCEPT ![c] = TRUE]
    /\ pc' = [pc EXCEPT ![c] = "crashed"]
    /\ UNCHANGED <<inputs, outputs, stage1, stage2, stage3, given, alone>>

Upnp(c) ==
    \/ ClearOutputs(c)
    \/ DirectionStage(c)
    \/ HelperCheckFails(c)
    \/ HelperStage(c)
    \/ HelperReadsPastEnd(c)
    \/ HelperCrashes(c)
    \/ CostStage(c)
    \/ CostReadsPastEnd(c)
    \/ CostCrashes(c)

Next == \E c \in Calls : Upnp(c)

Spec == Init /\ [][Next]_vars

-----------------------------------------------------------------------------
(* properties of one call *)

Called(c) == given[c].called

SameLengths(c) ==
    /\ Len(given[c].ray_origins) = Len(given[c].ray_directions)
    /\ Len(given[c].world_points) = Len(given[c].ray_directions)

OutputsGiven(c) == ~given[c].rot.null /\ ~given[c].trans.null

Range(f) == {f[i] : i \in DOMAIN f}

\* C1: whenever the three input vectors do not all have the same length, the
\* call aborts before any element is read past a vector's end, and it never
\* returns normally.
C1_MismatchAbortsBeforeAnyRead ==
    \A c \in Calls :
        (Called(c) /\ ~SameLengths(c)) => (~oob[c] /\ pc[c] # "done")

QuatNeg(q) == <<Neg(q[1]), Neg(q[2]), Neg(q[3]), Neg(q[4])>>

\* C2: for a noiseless scene of a known pose with six correspondences in
\* general position, Upnp returns a non-empty candidate set and one candidate
\* is the pose (up to the quaternion's sign).
C2_RecoversKnownPose ==
    \A c \in Calls :
        (pc[c] = "done" /\ given[c].pose.known) =>
            \E k \in DOMAIN solution_rotations[c].v \cap DOMAIN solution_translations[c].v :
                /\ solution_rotations[c].v[k] \in {given[c].pose.q, QuatNeg(given[c].pose.q)}
                /\ solution_translations[c].v[k] = given[c].pose.t

StageLocalsUntouched(c) ==
    /\ outer_products[c] = <<>>
    /\ h_matrix[c] = Uninitialized
    /\ g_matrix[c] = Uninitialized
    /\ j_matrix[c] = Uninitialized
    /\ a_matrix[c] = Uninitialized
    /\ b_mat[c] = Uninitialized
    /\ gamma[c] = Uninitialized

PastClear(c) ==
    pc[c] \in {"cleared", "h_done", "helper_done", "done", "abort_check", "crashed"}

\* C3: both output vectors are cleared before any stage computes, and from
\* then on, wherever the call ends, they have the same length, hold no
\* element they held before the call and no candidate without its partner.
C3_OutputsClearedAndAligned ==
    \A c \in Calls :
        /\ pc[c] \in {"start", "abort_null"} => StageLocalsUntouched(c)
        /\ pc[c] = "cleared" =>
              /\ StageLocalsUntouched(c)
              /\ solution_rotations[c].v = <<>>
              /\ solution_translations[c].v = <<>>
        /\ PastClear(c) =>
              /\ Len(solution_rotations[c].v) = Len(solution_translations[c].v)
              /\ Range(solution_rotations[c].v) \cap Range(given[c].rot.v) = {}
              /\ Range(solution_translations[c].v) \cap Range(given[c].trans.v) = {}

\* A call whose outputs held stale, unequally long contents has returned.
C3_Witness ==
    \E c \in Calls :
        /\ pc[c] = "done"
        /\ Len(given[c].rot.v) # Len(given[c].trans.v)
        /\ Len(given[c].rot.v) > 0

AllIdentical(rays) == \A i, k \in DOMAIN rays : rays[i] = rays[k]

Degenerate(c) ==
    /\ Called(c)
    /\ SameLengths(c)
    /\ OutputsGiven(c)
    /\ Len(given[c].ray_directions) >= 1
    /\ AllIdentical(given[c].ray_directions)

\* Upnp has a next step to take: it neither has ended nor is stuck.
Running(c) ==
    \/ At(c, "start")
    \/ At(c, "cleared")
    \/ CheckFails(c)
    \/ HelperInRange(c)
    \/ HelperPastEnd(c)
    \/ CostInRange(c)
    \/ CostPastEnd(c)

\* C4: when all ray directions are identical (the accumulated matrix is
\* singular) and the inputs are equally long, Upnp returns normally with both
\* outputs empty: it never aborts, it goes on until it returns, and it emits
\* no candidate.
C4_DegenerateReturnsEmpty ==
    \A c \in Calls :
        Degenerate(c) =>
            /\ pc[c] \notin {"abort_null", "abort_check", "crashed"}
            /\ pc[c] # "done" => Running(c)
            /\ pc[c] \in {"h_done", "helper_done", "done"} =>
                  Determinant(h_inverse[c]) = Zero
            /\ pc[c] = "done" =>
                  /\ ~oob[c]
                  /\ solution_rotations[c].v = <<>>
                  /\ solution_translations[c].v = <<>>

\* Two identical directions: the call has returned.
C4_Witness ==
    \E c \in Calls :
        /\ Degenerate(c)
        /\ Len(given[c].ray_directions) >= 2
        /\ pc[c] = "done"
        /\ solution_rotations[c].v = <<>>

Symmetric(a) == \A i, k \in DOMAIN a : Eq(a[i][k], a[k][i])

\* The sum over m >= k of x[i] * a[i][m] * x[m], and x^T * a * x as the sum of
\* these over the rows i >= k, for an integer vector x.
RECURSIVE RowSum(_, _, _, _)
RowSum(a, x, i, k) ==
    IF k > Len(x) THEN Zero
    ELSE Add(IF x[k] = 0 THEN Zero ELSE Mul(D(x[i] * x[k]), a[i][k]),
             RowSum(a, x, i, k + 1))

RECURSIVE QuadSum(_, _, _)
QuadSum(a, x, i) ==
    IF i > Len(x) THEN Zero
    ELSE Add(IF x[i] = 0 THEN Zero ELSE RowSum(a, x, i, 1), QuadSum(a, x, i + 1))

QuadForm(a, x) == QuadSum(a, x, 1)

\* The 10-vectors e_i, e_i + e_k and e_i - e_k.
TestVectors ==
    {[n \in 1..10 |-> IF n = i THEN 1 ELSE IF n = k THEN s ELSE 0] :
        i \in 1..10, k \in 1..10, s \in {-1, 0, 1}}

PositiveSemiDefinite(a) == \A x \in TestVectors : GeZero(QuadForm(a, x))

\* C6: for every input, the matrix A that ComputeCostMatrices returns is
\* symmetric and positive semi-definite.
C6_CostMatrixSymmetricPSD ==
    \A c \in Calls :
        (pc[c] = "done" /\ SameLengths(c)) =>
            (Symmetric(a_matrix[c]) /\ PositiveSemiDefinite(a_matrix[c]))

\* Temp_B_i = -(outer_product_i - I) * (origin_i + J)
TempB(c, i) ==
    MatVec(MatNeg(MatSub(outer_products[c][i], Identity)),
           VecAdd(ray_origins[c][i], j_matrix[c]))

RECURSIVE SumSquaredNorms(_, _)
SumSquaredNorms(c, i) ==
    IF i > Len(world_points[c]) THEN Zero
    ELSE Add(SquaredNorm(TempB(c, i)), SumSquaredNorms(c, i + 1))

\* C7: for every input, gamma is >= 0, it is the sum of the squared norms of
\* the Temp_B_i, and it is 0 when there are no correspondences.
C7_GammaNonNegative ==
    \A c \in Calls :
        (pc[c] = "done" /\ SameLengths(c)) =>
            /\ GeZero(gamma[c])
            /\ Eq(gamma[c], SumSquaredNorms(c, 1))
            /\ Len(world_points[c]) = 0 => gamma[c] = Zero

-----------------------------------------------------------------------------
(* stage 1 on its own *)

\* Most rays given to stage 1 on its own.
MaxRays == 3

\* Unit vectors, two of them opposite.
UnitDirections ==
    {Vector3d(1, 0, 0), Vector3d(-1, 0, 0), Vector3d(0, 1, 0),
     <<Frac(3, 5), Frac(4, 5), Zero>>, <<Frac(1, 3), Frac(2, 3), Frac(2, 3)>>}

NoCalls == Setup([c \in Calls |-> NotCalled])

InitH ==
    /\ NoCalls
    /\ \E rays \in SeqsUpTo(UnitDirections, MaxRays) :
          hm = [pc |-> "ready", rays |-> rays, outer_products |-> <<>>,
                h_inverse |-> Uninitialized, h_matrix |-> Uninitialized]
    /\ lm = [pc |-> "idle"]
    /\ cc = [pc |-> "idle"]

upnp_vars == <<inputs, outputs, stage1, stage2, stage3, pc, oob, given>>

DirectionAggregator ==
    /\ hm.pc = "ready"
    /\ LET r == ComputeHMatrixAndRayDirectionsOuterProducts(hm.rays)
       IN  hm' = [pc |-> "done", rays |-> hm.rays,
                  outer_products |-> r.outer_products,
                  h_inverse |-> r.h_inverse, h_matrix |-> r.h_matrix]
    /\ UNCHANGED <<upnp_vars, lm, cc>>

NextH == DirectionAggregator

SpecH == InitH /\ [][NextH]_vars

\* The sum over the rays k >= i of d_k[r] * d_k[s].
RECURSIVE SumOfProducts(_, _, _, _)
SumOfProducts(rays, r, s, i) ==
    IF i > Len(rays) THEN Zero
    ELSE Add(Mul(rays[i][r], rays[i][s]), SumOfProducts(rays, r, s, i + 1))

\* N * I - sum_i d_i * d_i^T, entry by entry.
SpreadMatrix(rays) ==
    LET E(r) == LET F(s) == Sub(IF r = s THEN D(Len(rays)) ELSE Zero,
                                SumOfProducts(rays, r, s, 1))
                IN  Tab3(F)
    IN  Tab3(E)

Cross(u, v) ==
    <<Sub(Mul(u[2], v[3]), Mul(u[3], v[2])),
      Sub(Mul(u[3], v[1]), Mul(u[1], v[3])),
      Sub(Mul(u[1], v[2]), Mul(u[2], v[1]))>>

Parallel(u, v) == Cross(u, v) = Zero3

Positive(x) == IsFinite(x) /\ x[1] > 0

\* Sylvester's criterion for a symmetric 3 x 3 matrix.
PositiveDefinite3(m) ==
    /\ Positive(m[1][1])
    /\ Positive(Sub(Mul(m[1][1], m[2][2]), Mul(m[1][2], m[2][1])))
    /\ Positive(Determinant(m))

AllFinite3x3(m) == \A i, k \in 1..3 : IsFinite(m[i][k])

\* C8: for N unit directions, stage 1 accumulates exactly N*I - sum d_i*d_i^T,
\* which is symmetric; with N >= 2 and two non-parallel directions it is
\* positive-definite and H is its inverse; with all directions parallel it is
\* singular.
C8_SpreadMatrixInvertibleUnlessParallel ==
    (hm.pc = "done" /\ \A i \in DOMAIN hm.rays : SquaredNorm(hm.rays[i]) = One) =>
        LET n == Len(hm.rays)
            m == hm.h_inverse
            spread == \E i, k \in 1..n : ~Parallel(hm.rays[i], hm.rays[k])
        IN  /\ m = SpreadMatrix(hm.rays)
            /\ Symmetric(m)
            /\ (n >= 2 /\ spread) =>
                  /\ PositiveDefinite3(m)
                  /\ AllFinite3x3(hm.h_matrix)
                  /\ MatMul(m, hm.h_matrix) = Identity
                  /\ MatMul(hm.h_matrix, m) = Identity
            /\ ~spread => Determinant(m) = Zero

\* The minimal case: exactly two rays, not parallel, aggregated and inverted.
C8_Witness ==
    /\ hm.pc = "done"
    /\ Len(hm.rays) = 2
    /\ ~Parallel(hm.rays[1], hm.rays[2])
    /\ AllFinite3x3(hm.h_matrix)

-----------------------------------------------------------------------------
(* LeftMultiply on its own *)

\* Largest coordinate of a point given to LeftMultiply on its own.
MaxCoordinate == 1

LmPoints ==
    {Vector3d(x, y, z) :
        x \in -MaxCoordinate..MaxCoordinate,
        y \in -MaxCoordinate..MaxCoordinate,
        z \in -MaxCoordinate..MaxCoordinate}

LmOthers == {Vector3d(1, 2, 3), <<Frac(1, 2), Zero, D(-1)>>}
LmScales == {D(-2), Frac(1, 3)}

InitLM ==
    /\ NoCalls
    /\ hm = [pc |-> "idle"]
    /\ \E p \in LmPoints, o \in LmOthers, k \in LmScales :
          lm = [pc |-> "ready", point |-> p, other |-> o, scale |-> k,
                phi_mat |-> Uninitialized, phi_other |-> Uninitialized,
                phi_sum |-> Uninitialized, phi_scaled |-> Uninitialized]
    /\ cc = [pc |-> "idle"]

\* LeftMultiply of the point, of the other point, of their sum and of the
\* point scaled.
LeftMultiplyAlone ==
    /\ lm.pc = "ready"
    /\ lm' = [lm EXCEPT !.pc = "done",
                        !.phi_mat = LeftMultiply(lm.point),
                        !.phi_other = LeftMultiply(lm.other),
                        !.phi_sum = LeftMultiply(VecAdd(lm.point, lm.other)),
                        !.phi_scaled = LeftMultiply(Scale3(lm.scale, lm.point))]
    /\ UNCHANGED <<upnp_vars, hm, cc>>

NextLM == LeftMultiplyAlone

SpecLM == InitLM /\ [][NextLM]_vars

QuatComponents == {D(-1), D(0), D(1), D(2)}
Quaternions == {<<q0, q1, q2, q3>> : q0 \in QuatComponents, q1 \in QuatComponents,
                                      q2 \in QuatComponents, q3 \in QuatComponents}

\* (q0^2, q1^2, q2^2, q3^2, q0q1, q0q2, q0q3, q1q2, q1q3, q2q3)
Monomials(q) ==
    <<Mul(q[1], q[1]), Mul(q[2], q[2]), Mul(q[3], q[3]), Mul(q[4], q[4]),
      Mul(q[1], q[2]), Mul(q[1], q[3]), Mul(q[1], q[4]),
      Mul(q[2], q[3]), Mul(q[2], q[4]), Mul(q[3], q[4])>>

RECURSIVE DotFrom(_, _, _)
DotFrom(u, v, i) ==
    IF i > Len(u) THEN Zero ELSE Add(Mul(u[i], v[i]), DotFrom(u, v, i + 1))

\* phi * s for a 3 x 10 matrix phi and a 10-vector s.
Apply3x10(phi, s) == LET E(i) == DotFrom(phi[i], s, 1) IN Tab3(E)

ScaleMat(k, a) == LET E(i) == LET F(m) == Mul(k, a[i][m]) IN Tab(Len(a[i]), F)
                  IN  Tab(Len(a), E)

\* C9: for every point p and quaternion q, LeftMultiply(p) times the monomial
\* vector of q is R(q) * p; LeftMultiply is linear in p and LeftMultiply(0) = 0.
C9_LeftMultiplyIsRotation ==
    lm.pc = "done" =>
        /\ \A q \in Quaternions :
              Apply3x10(lm.phi_mat, Monomials(q)) =
                  MatVec(QuatToRotation(q), lm.point)
        /\ lm.phi_sum = MatAdd(lm.phi_mat, lm.phi_other)
        /\ lm.phi_scaled = ScaleMat(lm.scale, lm.phi_mat)
        /\ lm.point = Zero3 => lm.phi_mat = Zero3x10

\* LeftMultiply has been applied to a point with three non-zero coordinates.
C9_Witness ==
    /\ lm.pc = "done"
    /\ \A i \in 1..3 : lm.point[i] # Zero
    /\ lm.phi_mat # Zero3x10

-----------------------------------------------------------------------------
(* ComputeCostMatrices on its own *)

\* Most correspondences given to ComputeCostMatrices on its own.
MaxBatch == 2

\* A correspondence: world point, ray origin, outer product of the direction.
Correspondences ==
    {[world_point |-> Vector3d(1, 2, 3), ray_origin |-> Vector3d(0, 0, 0),
      outer_product |-> OuterProduct(Vector3d(1, 0, 0))],
     [world_point |-> Vector3d(0, 1, -1), ray_origin |-> Vector3d(1, 0, 2),
      outer_product |-> OuterProduct(<<Frac(3, 5), Frac(4, 5), Zero>>)]}

\* The helper matrices given: zero, and two that are not.
HelperMatrices ==
    {[g_matrix |-> Zero3x10, j_matrix |-> Zero3],
     [g_matrix |-> LeftMultiply(<<Frac(1, 2), One, D(-1)>>),
      j_matrix |-> Vector3d(1, -1, 2)]}

\* What the output buffers hold before the first run.
PriorBuffers ==
    {[a_matrix |-> NaN10x10, b_vector |-> NaN10],
     [a_matrix |-> LET E(i) == LET F(k) == D(i - k) IN Tab10(F) IN Tab10(E),
      b_vector |-> LET E(i) == D(i) IN Tab10(E)]}

Orders(n) == {f \in [1..n -> 1..n] : \A i, k \in 1..n : f[i] = f[k] => i = k}

InitCost ==
    /\ NoCalls
    /\ hm = [pc |-> "idle"]
    /\ lm = [pc |-> "idle"]
    /\ \E batch \in SeqsUpTo(Correspondences, MaxBatch),
          helper \in HelperMatrices, prior \in PriorBuffers :
          \E split \in 0..Len(batch), order \in Orders(Len(batch)) :
             cc = [pc |-> "ready", batch |-> batch, split |-> split, order |-> order,
                   g_matrix |-> helper.g_matrix, j_matrix |-> helper.j_matrix,
                   prior |-> prior, whole |-> <<>>, first |-> <<>>,
                   second |-> <<>>, permuted |-> <<>>]

\* ComputeCostMatrices on the batch b, its output buffers holding `buffers`.
CostOf(b, g, j, buffers) ==
    ComputeCostMatrices([i \in DOMAIN b |-> b[i].world_point],
                        [i \in DOMAIN b |-> b[i].ray_origin],
                        [i \in DOMAIN b |-> b[i].outer_product],
                        g, j, Len(b), buffers.a_matrix, buffers.b_vector)

\* Four runs into the same output buffers: the whole batch, its first part,
\* its second part, and the whole batch reordered.
CostMatricesAlone ==
    /\ cc.pc = "ready"
    /\ LET n == Len(cc.batch)
           whole == CostOf(cc.batch, cc.g_matrix, cc.j_matrix, cc.prior)
           first == CostOf(SubSeq(cc.batch, 1, cc.split),
                           cc.g_matrix, cc.j_matrix, whole)
           second == CostOf(SubSeq(cc.batch, cc.split + 1, n),
                            cc.g_matrix, cc.j_matrix, first)
           permuted == CostOf([i \in 1..n |-> cc.batch[cc.order[i]]],
                              cc.g_matrix, cc.j_matrix, second)
       IN  cc' = [cc EXCEPT !.pc = "done", !.whole = whole, !.first = first,
                            !.second = second, !.permuted = permuted]
    /\ UNCHANGED <<upnp_vars, hm, lm>>

NextCost == CostMatricesAlone

SpecCost == InitCost /\ [][NextCost]_vars

\* C10: for fixed G and J, ComputeCostMatrices' result (A, b, gamma) for a
\* batch is the sum of its results for the two parts of the batch, whatever
\* the output buffers held before, and is the same for the batch reordered.
C10_CostIsAdditive ==
    cc.pc = "done" =>
        /\ cc.whole.a_matrix = MatAdd(cc.first.a_matrix, cc.second.a_matrix)
        /\ cc.whole.b_vector = VecAdd(cc.first.b_vector, cc.second.b_vector)
        /\ cc.whole.gamma = Add(cc.first.gamma, cc.second.gamma)
        /\ cc.permuted = cc.whole

\* Two different correspondences, split one and one, swapped, with G and J
\* not zero.
C10_Witness ==
    /\ cc.pc = "done"
    /\ Len(cc.batch) = 2
    /\ cc.batch[1] # cc.batch[2]
    /\ cc.split = 1
    /\ cc.order = <<2, 1>>
    /\ cc.g_matrix # Zero3x10
    /\ cc.whole.a_matrix # Zero10x10
    /\ cc.first.a_matrix # cc.second.a_matrix

-----------------------------------------------------------------------------
(* two calls at once *)

StaleOutputs ==
    [rot |-> Ptr(<<StaleRotation>>), trans |-> Ptr(<<StaleTranslation>>)]

\* The arguments of a call that runs beside another: two correspondences with
\* different directions, one correspondence, and one call for each way the
\* lengths can differ.
ConcurrentArgs ==
    {Args(<<Vector3d(0, 0, 0), Vector3d(1, 0, 0)>>,
          <<Vector3d(1, 0, 0), Vector3d(0, 1, 0)>>,
          <<Vector3d(1, 2, 3), Vector3d(0, 1, -1)>>, StaleOutputs, NoPose),
     Args(<<Vector3d(1, 0, 0)>>, <<Vector3d(0, 1, 0)>>, <<Vector3d(1, 2, 3)>>,
          StaleOutputs, NoPose),
     Args(<<Vector3d(0, 0, 0)>>, <<Vector3d(1, 0, 0)>>, <<>>, StaleOutputs, NoPose),
     Args(<<>>, <<>>, <<Vector3d(0, 1, -1)>>, StaleOutputs, NoPose),
     Args(<<Vector3d(0, 0, 0)>>, <<>>, <<>>, StaleOutputs, NoPose)}

InitConcurrent ==
    /\ \E a \in [Calls -> ConcurrentArgs] : Setup(a)
    /\ NoneAlone

SpecConcurrent == InitConcurrent /\ [][Next]_vars

\* What stage 2 of a call given `a` can leave in G and J when it runs alone.
HelperAlone(a) ==
    LET n == Len(a.ray_origins)
        s1 == ComputeHMatrixAndRayDirectionsOuterProducts(a.ray_directions)
    IN  {ComputeHelperMatrices(ReadPast(a.world_points, n, fill), a.ray_origins,
                               s1.outer_products, s1.h_matrix, n) :
            fill \in [(Len(a.world_points) + 1)..n -> GarbagePoints]}

\* What stage 3 of a call given `a` can leave in A, b and gamma when it runs
\* alone after a stage 2 that left g and j.
CostAlone(a, g, j) ==
    LET n == Len(a.world_points)
        s1 == ComputeHMatrixAndRayDirectionsOuterProducts(a.ray_directions)
        past == (Len(a.ray_origins) + 1)..n
    IN  {ComputeCostMatrices(a.world_points,
                             ReadPast(a.ray_origins, n, fill_ro),
                             ReadPast(s1.outer_products, n, fill_op),
                             g, j, n, Uninitialized, Uninitialized) :
            fill_ro \in [past -> GarbagePoints], fill_op \in [past -> GarbageMatrices]}

\* The state of call c is one that the call reaches when it runs alone: each
\* value is computed from the call's own arguments and nothing else.
AsAlone(c) ==
    LET a == given[c]
        s1 == ComputeHMatrixAndRayDirectionsOuterProducts(a.ray_directions)
    IN  /\ pc[c] = "start" =>
              /\ solution_rotations[c] = a.rot
              /\ solution_translations[c] = a.trans
        /\ pc[c] \in {"start", "cleared"} => StageLocalsUntouched(c)
        /\ PastClear(c) =>
              /\ solution_rotations[c] = Ptr(<<>>)
              /\ solution_translations[c] = Ptr(<<>>)
        /\ pc[c] \in {"h_done", "helper_done", "done", "abort_check", "crashed"} =>
              /\ outer_products[c] = s1.outer_products
              /\ h_inverse[c] = s1.h_inverse
              /\ h_matrix[c] = s1.h_matrix
        /\ pc[c] \in {"h_done", "abort_check"} =>
              /\ g_matrix[c] = Uninitialized
              /\ a_matrix[c] = Uninitialized
        /\ pc[c] = "abort_check" => Len(a.ray_origins) # Len(a.ray_directions)
        /\ pc[c] = "crashed" => ~SameLengths(c)
        /\ pc[c] \in {"helper_done", "done"} =>
              /\ Len(a.ray_origins) = Len(a.ray_directions)
              /\ [g_matrix |-> g_matrix[c], j_matrix |-> j_matrix[c]] \in HelperAlone(a)
        /\ pc[c] = "helper_done" => a_matrix[c] = Uninitialized
        /\ pc[c] = "done" =>
              [a_matrix |-> a_matrix[c], b_vector |-> b_mat[c], gamma |-> gamma[c]]
                  \in CostAlone(a, g_matrix[c], j_matrix[c])

\* C5: two calls running at once share no mutable state: under every
\* interleaving of their stages each call's outputs and intermediate values
\* are those of the call running alone, and no call changes its inputs.
C5_CallsDoNotInterfere ==
    \A c \in Calls :
        /\ ray_origins[c] = given[c].ray_origins
        /\ ray_directions[c] = given[c].ray_directions
        /\ world_points[c] = given[c].world_points
        /\ AsAlone(c)

\* Both calls, given different arguments, are between two stages.
C5_Witness ==
    /\ pc[1] = "helper_done"
    /\ pc[2] = "h_done"
    /\ given[1] # given[2]
    /\ Len(given[1].ray_directions) = 2

====
